---- MODULE Spec2Model ----
(***************************************************************************)
(* Easy-Translate: the streaming line reader (dataset.py) and the          *)
(* adaptive-batch-size inference driver (translate.py, main.inference      *)
(* under accelerate's find_executable_batch_size).                        *)
(*                                                                         *)
(* Files are sequences of one-character strings.  The tokenizer and the    *)
(* encoder-decoder model are external collaborators; they are modelled as  *)
(* deterministic functions on token ids (a character-level vocabulary and  *)
(* a token-wise translation), so that tokenize -> pad -> generate -> pad   *)
(* -> gather -> decode is an actual computation on the data.               *)
(***************************************************************************)
EXTENDS Integers, Sequences, FiniteSets, TLC

(* ------------------------------ bounds -------------------------------- *)

\* Largest number of lines of an input file.
MaxLines == 3

\* Largest --starting_batch_size tried.
MaxStartBatch == 3

\* Largest number of lines of a file given to a ParallelTextReader, and of
\* the input file of a run with several processes.
MaxReaderLines == 2

\* Largest number of times one ParallelTextReader is iterated over.
MaxIterations == 2

(* --------------------------- characters ------------------------------- *)

NL == "\n"

SP == " "

Whitespace == {SP, NL}

\* The texts a line of an input file may hold (without its newline).
LineTexts == {<<>>, <<SP>>, <<"a">>, <<SP, "b", "a", SP>>}

Min(x, y) == IF x < y THEN x ELSE y

Max(x, y) == IF x > y THEN x ELSE y

RECURSIVE Flatten(_)
\* Concatenation of a sequence of sequences.
Flatten(ss) == IF ss = <<>> THEN <<>> ELSE Head(ss) \o Flatten(Tail(ss))

\* All sequences over S of length at most n.
SeqsUpTo(S, n) == UNION {[1..k -> S] : k \in 0..n}

\* A text file holding the given lines, each but the last followed by a
\* newline; the last one is followed by a newline iff trailing.
MakeFile(lines, trailing) ==
    Flatten([i \in 1..Len(lines) |->
               IF i < Len(lines) \/ trailing THEN lines[i] \o <<NL>> ELSE lines[i]])

InputFiles == {MakeFile(ls, t) : ls \in SeqsUpTo(LineTexts, MaxLines), t \in BOOLEAN}

\* The input files of the runs with several processes, with exceptions or
\* with a --max_length option.
ReaderFiles ==
    {MakeFile(ls, t) : ls \in SeqsUpTo(LineTexts, MaxReaderLines), t \in BOOLEAN}

\* The texts of the lines of the files of a ParallelTextReader: an empty
\* line and a line with text between spaces.
PairTexts == {<<>>, <<SP, "b", "a", SP>>}

\* The prediction and reference files a ParallelTextReader is built on.
PairFiles ==
    {MakeFile(ls, t) : ls \in SeqsUpTo(PairTexts, MaxReaderLines), t \in BOOLEAN}

(* ----------------------------- dataset.py ------------------------------ *)

\* blocks(files, size=65536): the size of one read.
BlockSize == 65536

RECURSIVE blocks(_)
\* blocks(): the file cut into successive reads of BlockSize characters.
blocks(f) ==
    IF f = <<>> THEN <<>>
    ELSE <<SubSeq(f, 1, Min(BlockSize, Len(f)))>>
         \o blocks(SubSeq(f, Min(BlockSize, Len(f)) + 1, Len(f)))

\* str.count("\n") on one block.
CountNL(bl) == Cardinality({i \in 1..Len(bl) : bl[i] = NL})

RECURSIVE SumSeq(_)
SumSeq(ns) == IF ns = <<>> THEN 0 ELSE Head(ns) + SumSeq(Tail(ns))

\* count_lines(input_path): sum(bl.count("\n") for bl in blocks(f)).
count_lines(f) == SumSeq([i \in 1..Len(blocks(f)) |-> CountNL(blocks(f)[i])])

\* next() on a text file object at character offset off: the characters up
\* to and including the next newline, or the rest of the file when there is
\* no newline left.  <<>> means end of file (StopIteration).
ReadLine(f, off) ==
    LET nls == {i \in (off + 1)..Len(f) : f[i] = NL}
        end == IF nls = {} THEN Len(f)
               ELSE CHOOSE i \in nls : \A j \in nls : i <= j
    IN SubSeq(f, off + 1, end)

RECURSIVE ReadLines(_, _, _)
\* Up to n successive lines of f from offset off (the reads of one batch).
ReadLines(f, off, n) ==
    IF n = 0 THEN <<>>
    ELSE LET line == ReadLine(f, off)
         IN IF line = <<>> THEN <<>>
            ELSE <<line>> \o ReadLines(f, off + Len(line), n - 1)

\* All the lines iterating over the file yields.
FileLines(f) == ReadLines(f, 0, Len(f))

RECURSIVE LStrip(_)
LStrip(t) == IF t # <<>> /\ Head(t) \in Whitespace THEN LStrip(Tail(t)) ELSE t

RECURSIVE RStrip(_)
RStrip(t) ==
    IF t # <<>> /\ t[Len(t)] \in Whitespace THEN RStrip(SubSeq(t, 1, Len(t) - 1)) ELSE t

\* text.rstrip().strip()
Strip(t) == LStrip(RStrip(t))

(* ------------------- tokenizer and model (external) -------------------- *)

\* tokenizer.pad_token_id
PAD == 1

\* tokenizer.eos_token_id; also the decoder start token of generate.
EOS == 2

\* The language-code token of tokenizer.src_lang.
SRC_LANG == 3

\* lang_code_to_idx = tokenizer.lang_code_to_id[target_lang]
lang_code_to_idx == 4

SpecialTokens == {PAD, EOS, SRC_LANG, lang_code_to_idx}

\* main(..., max_length: int = 128, ...)
max_length == 128

\* DataCollatorForSeq2Seq(..., pad_to_multiple_of=8, ...)
pad_to_multiple_of == 8

\* The id of one character in the tokenizer's vocabulary.
TokenId(c) ==
    CASE c = "a" -> 10 [] c = "b" -> 11 [] c = SP -> 12
      [] c = "x" -> 20 [] c = "y" -> 21 [] OTHER -> 0

\* The character of one id of the vocabulary.
TokenChar(t) ==
    CASE t = 10 -> "a" [] t = 11 -> "b" [] t = 12 -> SP
      [] t = 20 -> "x" [] t = 21 -> "y" [] OTHER -> "?"

\* tokenizer(text, padding=False, truncation=True, max_length=n):
\* the source language code, the ids of the text and EOS, the text cut so
\* that the whole has at most n ids; the attention mask is all ones.
Tokenize(text, n) ==
    LET ids == [i \in 1..Min(Len(text), Max(n - 2, 0)) |-> TokenId(text[i])]
        all == <<SRC_LANG>> \o ids \o <<EOS>>
    IN [input_ids |-> all, attention_mask |-> [i \in 1..Len(all) |-> 1]]

\* A sequence padded on the right with v up to length n.
PadRight(s, n, v) == s \o [i \in 1..(n - Len(s)) |-> v]

\* The longest length among a sequence of sequences (0 when there is none).
MaxLen(ss) ==
    IF ss = <<>> THEN 0
    ELSE LET L == {Len(ss[i]) : i \in 1..Len(ss)}
         IN CHOOSE m \in L : \A k \in L : k <= m

\* n rounded up to a multiple of m.
RoundUp(n, m) == ((n + m - 1) \div m) * m

\* DataCollatorForSeq2Seq: every feature of the batch padded on the right,
\* to max_length on TPU (padding="max_length"), else to the longest of the
\* batch rounded up to pad_to_multiple_of (padding=True).
data_collator(features, tpu) ==
    LET longest == MaxLen([i \in 1..Len(features) |-> features[i].input_ids])
        width == IF tpu THEN Max(max_length, longest)
                 ELSE RoundUp(longest, pad_to_multiple_of)
    IN [i \in 1..Len(features) |->
          [input_ids |-> PadRight(features[i].input_ids, width, PAD),
           attention_mask |-> PadRight(features[i].attention_mask, width, 0)]]

\* The model's translation of one source token.
TranslateToken(t) == CASE t = 10 -> 20 [] t = 11 -> 21 [] OTHER -> t

\* Whether a token is text, not a special token.
IsText(t) == t \notin SpecialTokens

\* Whether a pair <<id, mask>> is a text token the attention mask keeps.
IsAttendedText(pair) == pair[2] = 1 /\ IsText(pair[1])

\* generate() on one row: it reads the positions the attention mask keeps,
\* and returns the decoder start token, the forced target language token,
\* the translated ids and EOS, cut to gen_kwargs["max_length"] ids.
GenerateRow(row) ==
    LET pairs == [i \in 1..Len(row.input_ids) |->
                    <<row.input_ids[i], row.attention_mask[i]>>]
        seen == SelectSeq(pairs, IsAttendedText)
        out == <<EOS, lang_code_to_idx>>
               \o [i \in 1..Len(seen) |-> TranslateToken(seen[i][1])] \o <<EOS>>
    IN SubSeq(out, 1, Min(Len(out), max_length))

\* model.generate(**batch, forced_bos_token_id=lang_code_to_idx, **gen_kwargs):
\* one generated row per input row, in order, padded with PAD to the
\* longest generated row of the batch.
generate(batch) ==
    LET rows == [i \in 1..Len(batch) |-> GenerateRow(batch[i])]
    IN [i \in 1..Len(rows) |-> PadRight(rows[i], MaxLen(rows), PAD)]

\* tokenizer.decode(ids, skip_special_tokens=True)
decode(ids) ==
    LET kept == SelectSeq(ids, IsText)
    IN [i \in 1..Len(kept) |-> TokenChar(kept[i])]

\* tokenizer.batch_decode(generated_tokens, skip_special_tokens=True)
batch_decode(rows) == [i \in 1..Len(rows) |-> decode(rows[i])]

RECURSIVE Join(_, _)
\* sep.join(texts)
Join(texts, sep) ==
    IF texts = <<>> THEN <<>>
    ELSE IF Len(texts) = 1 THEN texts[1]
    ELSE texts[1] \o sep \o Join(Tail(texts), sep)

(* ------------------ distributed layer (accelerate) --------------------- *)

\* accelerator.pad_across_processes(t, dim=1, pad_index=tokenizer.pad_token_id):
\* the rows of one process padded to the longest row of all processes.
pad_across_processes(rows, all) ==
    LET width == MaxLen(Flatten(all))
    IN [i \in 1..Len(rows) |-> PadRight(rows[i], width, PAD)]

\* accelerator.gather(t): the tensors of all processes concatenated along
\* dimension 0 in rank order; all is indexed by rank + 1.
gather(all) == Flatten(all)

\* The rows that the process of the given rank gets of one batch of the
\* prepared DataLoader (Accelerator(split_batches=True),
\* accelerator.prepare(data_loader)): the collated batch is cut into num
\* slices of Len(rows) \div num rows in rank order; a last batch that cannot
\* be cut evenly is first completed with first_rows, the first num rows of
\* the first batch of the pass, and cut into slices of one more row.
Shard(rows, first_rows, last, rank, num) ==
    LET uneven == last /\ Len(rows) % num # 0
        full == IF uneven THEN rows \o first_rows ELSE rows
        per == IF uneven THEN Len(rows) \div num + 1 ELSE Len(rows) \div num
    IN SubSeq(full, rank * per + 1, Min((rank + 1) * per, Len(full)))

(* ------------------------------ files ---------------------------------- *)

\* The byte a hole of a file reads as.
NUL == "NUL"

\* write() of data replacing what the file holds, as if the file were opened
\* again in "w" mode for every write.
WriteAtTruncating(f, pos, data) == data

\* write() of data at offset pos of a file holding f.
WriteAt(f, pos, data) ==
    IF data = <<>> THEN f
    ELSE [i \in 1..Max(Len(f), pos + Len(data)) |->
            IF i > pos /\ i <= pos + Len(data) THEN data[i - pos]
            ELSE IF i <= Len(f) THEN f[i] ELSE NUL]

\* A closed file object.
Closed == [open |-> FALSE, pos |-> 0, buf |-> <<>>]

\* open(output_path, "a") on a file holding f: the content is kept and the
\* file object writes at its end.
OpenA(f) == [content |-> f, handle |-> [open |-> TRUE, pos |-> Len(f), buf |-> <<>>]]

\* open(output_path, "r+") on a file holding f: the content is kept and the
\* file object writes from offset 0.
OpenRW(f) == [content |-> f, handle |-> [open |-> TRUE, pos |-> 0, buf |-> <<>>]]

\* open(output_path, "w") on a file holding f (or on no file): the file is
\* created or truncated, and the file object writes from offset 0 with
\* nothing buffered.
OpenW(f) == [content |-> <<>>, handle |-> [open |-> TRUE, pos |-> 0, buf |-> <<>>]]

\* Content some earlier program left at the output path.
StaleOutput == <<"y", NL, "x", "x", NL, NL, "y", NL, "x", NL>>

(* ------------------------------ state ---------------------------------- *)

VARIABLES
    sentences,            \* content of the file at sentences_path
    starting_batch_size,  \* --starting_batch_size
    num_processes,        \* accelerator.num_processes
    tpu,                  \* accelerator.distributed_type == DistributedType.TPU
    out_exists,           \* whether a file exists at output_path
    out_file,             \* its content on disk
    run,                  \* which run of the pipeline this is (1 or 2)
    results,              \* out_file at the end of each earlier run
    pc,                   \* per process: where it is in main()
    batch_size,           \* per process: the decorator's nonlocal batch_size
    attempts,             \* per process: the batch sizes inference() was called with
    offset,               \* per process: characters read by the DatasetReader's file
    current_line,         \* per process: DatasetReader.current_line
    warnings,             \* per process: line numbers of the warnings printed
    first_batch,          \* per process: inference's first_batch
    output_file,          \* per process: the file object open on output_path
    batch,                \* per process: the padded batch being generated for
    generated_tokens,     \* per process: inference's generated_tokens
    pbar,                 \* per process: tqdm's count of translated lines
    model_calls,          \* per process: calls of generate() in this run
    partial,              \* per process: what each out-of-memory attempt left in out_file
    batches,              \* per process: the lines of each batch fetched in this attempt
    args_max_length,      \* args.max_length, as argparse parsed --max_length
    pred_file,            \* content of the file at pred_path
    gold_file,            \* content of the file at gold_path
    reader,               \* the ParallelTextReader: its state and attributes
    pred_itr,             \* per iterator: characters read by its file on pred_path
    gold_itr,             \* per iterator: characters read by its file on gold_path
    pairs,                \* per iterator: the pairs it has yielded
    exhausted,            \* per iterator: whether it has raised StopIteration
    reader_warnings       \* the warnings ParallelTextReader.preprocess printed

driver_vars == <<out_exists, out_file, run, results, pc, batch_size, attempts, offset,
                 current_line, warnings, first_batch, output_file, batch,
                 generated_tokens, pbar, model_calls, partial, batches>>

reader_vars == <<pred_file, gold_file, reader, pred_itr, gold_itr, pairs,
                 exhausted, reader_warnings>>

\* What no step of the driver changes: the arguments of the run and the
\* ParallelTextReader, which translate.py does not use.
config == <<sentences, starting_batch_size, num_processes, tpu, args_max_length,
            reader_vars>>

vars == <<config, driver_vars>>

Procs == 0..(num_processes - 1)

\* No ParallelTextReader object yet.  state is "none", then "failed" (the
\* constructor raised AssertionError) or "ready"; iterations counts the
\* iterators __iter__ has returned, which all share current_line.
NoReader == [state |-> "none", pref_filename_lines |-> 0, gold_path_lines |-> 0,
             num_sentences |-> 0, current_line |-> 0, iterations |-> 0]

\* The same value for every process.
Each(v) == [p \in Procs |-> v]

\* parser.add_argument("--max_length", type=int, default=128, ...)
ArgDefaultMaxLength == 128

\* The driver at the start of main() with N processes, on one of the given
\* input files and with --max_length parsed as one of the given lengths; no
\* ParallelTextReader.
InitWith(N, files, lengths) ==
    /\ pred_file = <<>>
    /\ gold_file = <<>>
    /\ reader = NoReader
    /\ pred_itr = <<>>
    /\ gold_itr = <<>>
    /\ pairs = <<>>
    /\ exhausted = <<>>
    /\ reader_warnings = {}
    /\ sentences \in files
    /\ args_max_length \in lengths
    /\ starting_batch_size \in 1..MaxStartBatch
    /\ num_processes = N
    /\ tpu \in BOOLEAN
    /\ out_exists \in BOOLEAN
    /\ out_file = IF out_exists THEN StaleOutput ELSE <<>>
    /\ run = 1
    /\ results = <<>>
    /\ pc = Each("sizing")
    /\ batch_size = Each(starting_batch_size)
    /\ attempts = Each(<<>>)
    /\ offset = Each(0)
    /\ current_line = Each(0)
    /\ warnings = Each({})
    /\ first_batch = Each(TRUE)
    /\ output_file = Each(Closed)
    /\ batch = Each(<<>>)
    /\ generated_tokens = Each(<<>>)
    /\ pbar = Each(0)
    /\ model_calls = Each(0)
    /\ partial = Each(<<>>)
    /\ batches = Each(<<>>)

Init == InitWith(1, InputFiles, {ArgDefaultMaxLength})

(* ----------------------------- actions --------------------------------- *)

\* flush of a file object: its buffer written at its offset.
Flushed(p) == WriteAt(out_file, output_file[p].pos, output_file[p].buf)

\* The test left out: every batch size is passed on to inference.
ExecutableAlways(b) == TRUE

\* find_executable_batch_size's test before each call: batch_size == 0 raises.
Executable(b) == b # 0

\* accelerator.prepare(data_loader) with split_batches=True raises ValueError
\* for a batch size above 1 that is not a multiple of the number of
\* processes.
PrepareFails(b) == b > 1 /\ b % num_processes # 0

\* The decorator retrying after every exception.
ShouldReduceAlways(kind) == TRUE

\* find_executable_batch_size's except clause: only an out-of-memory error
\* makes it halve the batch size and loop; it raises any other exception.
should_reduce_batch_size(kind) == kind = "oom"

\* find_executable_batch_size's loop calls inference(batch_size), which
\* runs up to its for loop: a new DatasetReader and DataLoader, a new
\* progress bar, and open(output_path, "w").
StartAttempt(p) ==
    /\ pc[p] = "sizing"
    /\ Executable(batch_size[p])
    /\ ~PrepareFails(batch_size[p])
    /\ attempts' = [attempts EXCEPT ![p] = Append(@, batch_size[p])]
    /\ current_line' = [current_line EXCEPT ![p] = 0]
    /\ offset' = [offset EXCEPT ![p] = 0]
    /\ pbar' = [pbar EXCEPT ![p] = 0]
    /\ out_exists' = TRUE
    /\ out_file' = OpenW(out_file).content
    /\ output_file' = [output_file EXCEPT ![p] = OpenW(out_file).handle]
    /\ first_batch' = [first_batch EXCEPT ![p] = TRUE]
    /\ pc' = [pc EXCEPT ![p] = "fetch"]
    /\ batches' = [batches EXCEPT ![p] = <<>>]
    /\ UNCHANGED <<config, run, results, batch_size, warnings, batch,
                   generated_tokens, model_calls, partial>>

\* find_executable_batch_size: batch_size == 0 raises RuntimeError
\* ("No executable batch size found, reached zero."), which ends main().
NoExecutableBatchSize(p) ==
    /\ pc[p] = "sizing"
    /\ ~Executable(batch_size[p])
    /\ pc' = [pc EXCEPT ![p] = "fatal"]
    /\ UNCHANGED <<config, out_exists, out_file, run, results, batch_size, attempts,
                   offset, current_line, warnings, first_batch, output_file, batch,
                   generated_tokens, pbar, model_calls, partial, batches>>

\* A DataLoader that takes batch_size + 1 samples for a batch.
NextLinesOneMore(p) == ReadLines(sentences, offset[p], batch_size[p] + 1)

\* DataLoader(..., drop_last=True): a last batch that is not full is dropped.
NextLinesDropLast(p) ==
    IF Len(ReadLines(sentences, offset[p], batch_size[p])) < batch_size[p] THEN <<>>
    ELSE ReadLines(sentences, offset[p], batch_size[p])

\* The lines the DataLoader reads for its next batch.
NextLines(p) == ReadLines(sentences, offset[p], batch_size[p])

\* The lines that are not empty once stripped.
NotEmpty(line) == Strip(line) # <<>>

\* Empty sentences skipped instead of tokenized.
PreprocessedSkipEmpty(lines) ==
    [i \in 1..Len(SelectSeq(lines, NotEmpty)) |->
       Tokenize(Strip(SelectSeq(lines, NotEmpty)[i]), max_length)]

\* DatasetReader.preprocess on each line read.
Preprocessed(lines) ==
    [i \in 1..Len(lines) |-> Tokenize(Strip(lines[i]), max_length)]

\* The first rows of the first batch of a pass at batch size b, one per
\* process: what the prepared DataLoader keeps to complete a last batch.
FirstRows(b) ==
    LET first == data_collator(Preprocessed(ReadLines(sentences, 0, b)), tpu)
    IN SubSeq(first, 1, Min(num_processes, Len(first)))

\* "for batch in data_loader" yields a batch: batch_size lines (fewer at the
\* end of the file) are read and preprocessed by the DatasetReader of the
\* main process, collated, and cut for this process.
NextBatch(p) ==
    /\ pc[p] = "fetch"
    /\ NextLines(p) # <<>>
    /\ LET lines == NextLines(p) IN
         /\ offset' = [offset EXCEPT ![p] = @ + Len(Flatten(lines))]
         /\ current_line' = [current_line EXCEPT ![p] =
                IF p = 0 THEN @ + Len(lines) ELSE @]
         /\ warnings' = [warnings EXCEPT ![p] =
                IF p = 0
                THEN @ \cup {current_line[p] + i : i \in {j \in 1..Len(lines) :
                                                          Strip(lines[j]) = <<>>}}
                ELSE @]
         /\ batch' = [batch EXCEPT ![p] =
                Shard(data_collator(Preprocessed(lines), tpu),
                      FirstRows(batch_size[p]),
                      offset[p] + Len(Flatten(lines)) = Len(sentences),
                      p, num_processes)]
         /\ batches' = [batches EXCEPT ![p] = Append(@, lines)]
    /\ pc' = [pc EXCEPT ![p] = "generate"]
    /\ UNCHANGED <<config, out_exists, out_file, run, results, batch_size, attempts,
                   first_batch, output_file, generated_tokens, pbar, model_calls,
                   partial>>

\* The for loop ends: the with block closes output_file, inference returns
\* and main prints "Translation done.".
EndOfData(p) ==
    /\ pc[p] = "fetch"
    /\ NextLines(p) = <<>>
    /\ out_file' = Flushed(p)
    /\ output_file' = [output_file EXCEPT ![p] = Closed]
    /\ pc' = [pc EXCEPT ![p] = "done"]
    /\ UNCHANGED <<config, out_exists, run, results, batch_size, attempts, offset,
                   current_line, warnings, first_batch, batch, generated_tokens,
                   pbar, model_calls, partial, batches>>

\* accelerator.unwrap_model(model).generate(...) returns.
Generate(p) ==
    /\ pc[p] = "generate"
    /\ generated_tokens' = [generated_tokens EXCEPT ![p] = generate(batch[p])]
    /\ batch' = [batch EXCEPT ![p] = <<>>]
    /\ model_calls' = [model_calls EXCEPT ![p] = @ + 1]
    /\ pc' = [pc EXCEPT ![p] = "gather"]
    /\ UNCHANGED <<config, out_exists, out_file, run, results, batch_size, attempts,
                   offset, current_line, warnings, first_batch, output_file, pbar,
                   partial, batches>>

\* The decorator lowering the batch size by one.
ReducedByOne(b) == b - 1

\* The batch size the decorator goes on with after an out-of-memory error.
Reduced(b) == b \div 2

\* generate() raises CUDA out of memory: the with block closes output_file,
\* and the decorator halves batch_size and loops.
OutOfMemory(p) ==
    /\ pc[p] = "generate"
    /\ should_reduce_batch_size("oom")
    /\ model_calls' = [model_calls EXCEPT ![p] = @ + 1]
    /\ batch' = [batch EXCEPT ![p] = <<>>]
    /\ out_file' = Flushed(p)
    /\ output_file' = [output_file EXCEPT ![p] = Closed]
    /\ partial' = [partial EXCEPT ![p] = Append(@, Flushed(p))]
    /\ batch_size' = [batch_size EXCEPT ![p] = Reduced(@)]
    /\ pc' = [pc EXCEPT ![p] = "sizing"]
    /\ UNCHANGED <<config, out_exists, run, results, attempts, offset, current_line,
                   warnings, first_batch, generated_tokens, pbar, batches>>

\* What the decorator does with an exception of the given kind raised by
\* inference at batch size b: where the driver goes on and at which size.
Raised(kind, b) ==
    IF should_reduce_batch_size(kind)
    THEN [pc |-> "sizing", batch_size |-> Reduced(b)]
    ELSE [pc |-> "error", batch_size |-> b]

\* accelerator.prepare(data_loader) raises ValueError: get_dataloader has
\* built a new DatasetReader and DataLoader, inference has not made its
\* progress bar nor opened output_file yet, and the exception ends main().
PrepareError(p) ==
    /\ pc[p] = "sizing"
    /\ Executable(batch_size[p])
    /\ PrepareFails(batch_size[p])
    /\ attempts' = [attempts EXCEPT ![p] = Append(@, batch_size[p])]
    /\ current_line' = [current_line EXCEPT ![p] = 0]
    /\ offset' = [offset EXCEPT ![p] = 0]
    /\ batches' = [batches EXCEPT ![p] = <<>>]
    /\ pc' = [pc EXCEPT ![p] = Raised("prepare", batch_size[p]).pc]
    /\ batch_size' = [batch_size EXCEPT ![p] = Raised("prepare", @).batch_size]
    /\ UNCHANGED <<config, out_exists, out_file, run, results, warnings, first_batch,
                   output_file, batch, generated_tokens, pbar, model_calls, partial>>

\* open(output_path, "w") raises OSError (the path cannot be written), after
\* get_dataloader has built a new DatasetReader and DataLoader and tqdm a
\* new progress bar: the file is left as it is, first_batch is not assigned
\* yet, and the exception ends main().
OpenError(p) ==
    /\ pc[p] = "sizing"
    /\ Executable(batch_size[p])
    /\ ~PrepareFails(batch_size[p])
    /\ attempts' = [attempts EXCEPT ![p] = Append(@, batch_size[p])]
    /\ current_line' = [current_line EXCEPT ![p] = 0]
    /\ offset' = [offset EXCEPT ![p] = 0]
    /\ batches' = [batches EXCEPT ![p] = <<>>]
    /\ pbar' = [pbar EXCEPT ![p] = 0]
    /\ first_batch' = [first_batch EXCEPT ![p] = TRUE]
    /\ pc' = [pc EXCEPT ![p] = Raised("output", batch_size[p]).pc]
    /\ batch_size' = [batch_size EXCEPT ![p] = Raised("output", @).batch_size]
    /\ UNCHANGED <<config, out_exists, out_file, run, results, warnings, output_file,
                   batch, generated_tokens, model_calls, partial>>

\* An exception that is not an out-of-memory error inside the for loop: the
\* input cannot be read (the DataLoader's next batch, after some of its
\* lines were read and preprocessed one by one) or generate() fails.
\* The with block closes output_file and the exception ends main().
OtherError(p) ==
    /\ pc[p] \in {"fetch", "generate"}
    /\ LET kind == IF pc[p] = "fetch" THEN "input" ELSE "model" IN
         /\ pc' = [pc EXCEPT ![p] = Raised(kind, batch_size[p]).pc]
         /\ batch_size' = [batch_size EXCEPT ![p] = Raised(kind, @).batch_size]
    /\ \E k \in 0..(IF pc[p] = "fetch" THEN Max(Len(NextLines(p)) - 1, 0) ELSE 0) :
         LET lines == SubSeq(NextLines(p), 1, k) IN
         /\ offset' = [offset EXCEPT ![p] = @ + Len(Flatten(lines))]
         /\ current_line' = [current_line EXCEPT ![p] =
                IF p = 0 THEN @ + Len(lines) ELSE @]
         /\ warnings' = [warnings EXCEPT ![p] =
                IF p = 0
                THEN @ \cup {current_line[p] + i : i \in {j \in 1..Len(lines) :
                                                          Strip(lines[j]) = <<>>}}
                ELSE @]
    /\ model_calls' = [model_calls EXCEPT ![p] = IF pc[p] = "generate" THEN @ + 1 ELSE @]
    /\ batch' = [batch EXCEPT ![p] = <<>>]
    /\ out_file' = Flushed(p)
    /\ output_file' = [output_file EXCEPT ![p] = Closed]
    /\ UNCHANGED <<config, out_exists, run, results, attempts, first_batch,
                   generated_tokens, pbar, partial, batches>>

\* pad_across_processes and gather: collective calls that return once every
\* process has entered them, each with the rows of all in rank order.
PadAndGather ==
    /\ \A p \in Procs : pc[p] = "gather"
    /\ LET all == [r \in 1..num_processes |-> generated_tokens[r - 1]]
           padded == [r \in 1..num_processes |-> pad_across_processes(all[r], all)]
       IN generated_tokens' = [p \in Procs |-> gather(padded)]
    /\ pc' = [p \in Procs |-> "write"]
    /\ UNCHANGED <<config, out_exists, out_file, run, results, batch_size, attempts,
                   offset, current_line, warnings, first_batch, output_file, batch,
                   pbar, model_calls, partial, batches>>

\* print("\n".join(tgt_text), file=output_file, end="") alone: no
\* print(file=output_file) ahead of the batches after the first.
PrintedNoSeparator(first, tgt_text) == <<<<>>, Join(tgt_text, <<NL>>)>>

\* print("\n".join(tgt_text), file=output_file) for every batch: the default
\* end="\n" instead of the first_batch test.
PrintedWithNewline(first, tgt_text) == <<<<>>, Join(tgt_text, <<NL>>) \o <<NL>>>>

\* What print(file=output_file) of lines 147-148 writes ahead of a batch.
Separator(first) == IF first THEN <<>> ELSE <<NL>>

\* What the two prints of lines 147-151 write to output_file for one batch:
\* the separator, then the records of the batch joined by newlines.
Printed(first, tgt_text) == <<Separator(first), Join(tgt_text, <<NL>>)>>

\* batch_decode, the two print calls and pbar.update.  The file object may
\* write out what it buffers between the two prints (flush): the separator
\* then reaches the file and the text of the batch stays buffered.
WriteBatch(p) ==
    /\ pc[p] = "write"
    /\ LET tgt_text == batch_decode(generated_tokens[p])
           writes == Printed(first_batch[p], tgt_text)
       IN /\ \E flush \in BOOLEAN :
               IF flush
               THEN LET head == output_file[p].buf \o writes[1] IN
                    /\ out_file' = WriteAt(out_file, output_file[p].pos, head)
                    /\ output_file' = [output_file EXCEPT
                           ![p].pos = @ + Len(head),
                           ![p].buf = writes[2]]
               ELSE /\ out_file' = out_file
                    /\ output_file' = [output_file EXCEPT
                           ![p].buf = @ \o writes[1] \o writes[2]]
          /\ pbar' = [pbar EXCEPT ![p] = @ + Len(tgt_text)]
    /\ first_batch' = [first_batch EXCEPT ![p] = FALSE]
    /\ generated_tokens' = [generated_tokens EXCEPT ![p] = <<>>]
    /\ pc' = [pc EXCEPT ![p] = "fetch"]
    /\ UNCHANGED <<config, out_exists, run, results, batch_size, attempts,
                   offset, current_line, warnings, batch, model_calls, partial, batches>>

\* The file object writes out what it buffers, before close.
FlushOutput(p) ==
    /\ output_file[p].open
    /\ output_file[p].buf # <<>>
    /\ out_file' = Flushed(p)
    /\ output_file' = [output_file EXCEPT ![p].pos = @ + Len(output_file[p].buf),
                                          ![p].buf = <<>>]
    /\ UNCHANGED <<config, out_exists, run, results, pc, batch_size, attempts, offset,
                   current_line, warnings, first_batch, batch, generated_tokens,
                   pbar, model_calls, partial, batches>>

\* The program is started a second time with the same arguments after a
\* first run that ended with "Translation done.".
Rerun ==
    /\ \A p \in Procs : pc[p] = "done"
    /\ run = 1
    /\ run' = run + 1
    /\ results' = Append(results, out_file)
    /\ pc' = Each("sizing")
    /\ batch_size' = Each(starting_batch_size)
    /\ attempts' = Each(<<>>)
    /\ model_calls' = Each(0)
    /\ partial' = Each(<<>>)
    /\ warnings' = Each({})
    /\ batches' = Each(<<>>)
    /\ UNCHANGED <<config, out_exists, out_file, offset, current_line,
                   first_batch, output_file, batch, generated_tokens, pbar>>

Next ==
    \/ \E p \in Procs : StartAttempt(p)
    \/ \E p \in Procs : NoExecutableBatchSize(p)
    \/ \E p \in Procs : NextBatch(p)
    \/ \E p \in Procs : EndOfData(p)
    \/ \E p \in Procs : Generate(p)
    \/ \E p \in Procs : OutOfMemory(p)
    \/ PadAndGather
    \/ \E p \in Procs : WriteBatch(p)
    \/ \E p \in Procs : FlushOutput(p)
    \/ Rerun

Spec == Init /\ [][Next]_vars

\* The driver where opening the output, reading the input and generate() may
\* raise exceptions other than out of memory.
NextErr ==
    \/ Next
    \/ \E p \in Procs : OpenError(p)
    \/ \E p \in Procs : OtherError(p)

InitErr == InitWith(1, ReaderFiles, {ArgDefaultMaxLength})

SpecErr == InitErr /\ [][NextErr]_vars

(* ------------------------ ParallelTextReader --------------------------- *)

\* Every variable of the driver stays as it is.
DriverIdle ==
    UNCHANGED <<sentences, starting_batch_size, num_processes, tpu, args_max_length,
                driver_vars>>

\* The assert only refusing a prediction file longer than the reference file.
LengthsMatchLoose(pref_filename_lines, gold_path_lines) ==
    pref_filename_lines <= gold_path_lines

\* The test of the assert of ParallelTextReader.__init__.
LengthsMatch(pref_filename_lines, gold_path_lines) ==
    pref_filename_lines = gold_path_lines

\* ParallelTextReader(pred_path, gold_path): both files are counted, the
\* assert passes or raises, and then num_sentences and current_line are set.
Construct ==
    /\ reader.state = "none"
    /\ LET pl == count_lines(pred_file)
           gl == count_lines(gold_file)
       IN reader' = [reader EXCEPT
                       !.state = IF LengthsMatch(pl, gl) THEN "ready" ELSE "failed",
                       !.pref_filename_lines = pl,
                       !.gold_path_lines = gl,
                       !.num_sentences = IF LengthsMatch(pl, gl) THEN gl ELSE 0,
                       !.current_line = 0]
    /\ UNCHANGED <<pred_file, gold_file, pred_itr, gold_itr, pairs, exhausted,
                   reader_warnings>>
    /\ DriverIdle

\* The message of the AssertionError of a reader whose construction failed.
ErrorMessage ==
    <<"Lines in", "pred_path", "and", "gold_path", "do not match",
      reader.pref_filename_lines, "vs", reader.gold_path_lines>>

\* ParallelTextReader.__iter__: both files are opened and a new map object
\* over them is returned, whatever the state of the iterators returned
\* before; current_line is left as it is.
Iter ==
    /\ reader.state = "ready"
    /\ reader.iterations < MaxIterations
    /\ reader' = [reader EXCEPT !.iterations = @ + 1]
    /\ pred_itr' = Append(pred_itr, 0)
    /\ gold_itr' = Append(gold_itr, 0)
    /\ pairs' = Append(pairs, <<>>)
    /\ exhausted' = Append(exhausted, FALSE)
    /\ UNCHANGED <<pred_file, gold_file, reader_warnings>>
    /\ DriverIdle

\* next() on the i-th map object, both its files having a line left:
\* ParallelTextReader.preprocess on the two lines.
NextPair(i) ==
    /\ i \in 1..Len(pairs)
    /\ ReadLine(pred_file, pred_itr[i]) # <<>>
    /\ ReadLine(gold_file, gold_itr[i]) # <<>>
    /\ LET pred_line == ReadLine(pred_file, pred_itr[i])
           gold_line == ReadLine(gold_file, gold_itr[i])
           pred == Strip(pred_line)
           gold == Strip(gold_line)
           line == reader.current_line + 1
       IN /\ reader' = [reader EXCEPT !.current_line = line]
          /\ pred_itr' = [pred_itr EXCEPT ![i] = @ + Len(pred_line)]
          /\ gold_itr' = [gold_itr EXCEPT ![i] = @ + Len(gold_line)]
          /\ reader_warnings' = reader_warnings
                \cup (IF pred = <<>> THEN {<<"Pred", line>>} ELSE {})
                \cup (IF gold = <<>> THEN {<<"Gold", line>>} ELSE {})
          /\ pairs' = [pairs EXCEPT ![i] = Append(@, <<pred, <<gold>>>>)]
    /\ UNCHANGED <<pred_file, gold_file, exhausted>>
    /\ DriverIdle

\* next() on the i-th map object when a file has no line left: map asks
\* pred_itr first, and gold_itr only if pred_itr gave a line; StopIteration.
StopIteration(i) ==
    /\ i \in 1..Len(pairs)
    /\ \/ ReadLine(pred_file, pred_itr[i]) = <<>>
       \/ ReadLine(gold_file, gold_itr[i]) = <<>>
    /\ exhausted' = [exhausted EXCEPT ![i] = TRUE]
    /\ pred_itr' = [pred_itr EXCEPT ![i] = @ + Len(ReadLine(pred_file, pred_itr[i]))]
    /\ UNCHANGED <<pred_file, gold_file, reader, gold_itr, pairs, reader_warnings>>
    /\ DriverIdle

\* A ParallelTextReader is built on two files and iterated over; the driver
\* is not running.
InitReader ==
    /\ pred_file \in PairFiles
    /\ gold_file \in PairFiles
    /\ reader = NoReader
    /\ pred_itr = <<>>
    /\ gold_itr = <<>>
    /\ pairs = <<>>
    /\ exhausted = <<>>
    /\ reader_warnings = {}
    /\ sentences = <<>>
    /\ starting_batch_size = 1
    /\ num_processes = 1
    /\ tpu = FALSE
    /\ out_exists = FALSE
    /\ out_file = <<>>
    /\ run = 1
    /\ results = <<>>
    /\ pc = Each("idle")
    /\ batch_size = Each(starting_batch_size)
    /\ attempts = Each(<<>>)
    /\ offset = Each(0)
    /\ current_line = Each(0)
    /\ warnings = Each({})
    /\ first_batch = Each(TRUE)
    /\ output_file = Each(Closed)
    /\ batch = Each(<<>>)
    /\ generated_tokens = Each(<<>>)
    /\ pbar = Each(0)
    /\ model_calls = Each(0)
    /\ partial = Each(<<>>)
    /\ batches = Each(<<>>)
    /\ args_max_length = ArgDefaultMaxLength

NextReader ==
    \/ Construct
    \/ Iter
    \/ \E i \in 1..MaxIterations : NextPair(i)
    \/ \E i \in 1..MaxIterations : StopIteration(i)

SpecReader == InitReader /\ [][NextReader]_vars

(* --------------------------- several processes ------------------------- *)

\* Number of worker processes of a distributed run.
\* A --max_length shorter than the longest tokenized line of the input files.
ShortMaxLength == 3

\* The values args.max_length takes: the default when --max_length is not
\* given, and a given length.
CliMaxLengths == {ArgDefaultMaxLength, ShortMaxLength}

\* The driver started from the command line with or without --max_length:
\* the main(...) call of lines 235-245 passes no max_length, so main runs
\* with the default of its own parameter whatever args.max_length is.
InitCli == InitWith(1, ReaderFiles, CliMaxLengths)

SpecCli == InitCli /\ [][Next]_vars

NumWorkers == 2

InitDist == InitWith(NumWorkers, ReaderFiles, {ArgDefaultMaxLength})

\* With several processes accelerator.prepare may refuse the batch size.
NextDist ==
    \/ NextErr
    \/ \E p \in Procs : PrepareError(p)

SpecDist == InitDist /\ [][NextDist]_vars

(* ------------------------------- claims -------------------------------- *)

RECURSIVE SplitNL(_)
\* The records of a file: its content cut at every newline character.
SplitNL(f) ==
    LET nls == {i \in 1..Len(f) : f[i] = NL} IN
    IF nls = {} THEN <<f>>
    ELSE LET k == CHOOSE i \in nls : \A j \in nls : i <= j
         IN <<SubSeq(f, 1, k - 1)>> \o SplitNL(SubSeq(f, k + 1, Len(f)))

\* The lines of the input file, as iterating over it yields them.
InputLines == FileLines(sentences)

\* The decoded generation of one input line, taken alone: no batch, no
\* padding, no gather.
TranslateLine(line) == decode(GenerateRow(Tokenize(Strip(line), max_length)))

\* The decoded generation of every input line, in input order.
Expected ==
    LET lines == InputLines
    IN [k \in 1..Len(lines) |-> TranslateLine(lines[k])]

\* Whether the k-th input line is empty once stripped.
IsEmptyLine(k) == Strip(InputLines[k]) = <<>>

\* C1: after a successful single-process pass at any batch size, the k-th
\* record of the output file is the decoded generation of the k-th input
\* line, for every k, and the output holds no other record (an empty input
\* gives an empty output).
C1_OrderPreserved ==
    \A p \in Procs :
        pc[p] = "done" =>
            IF InputLines = <<>> THEN out_file = <<>>
            ELSE SplitNL(out_file) = Expected

\* C1 witness: a finished pass over three lines at batch size 2 (a full
\* batch and a shorter last one) whose records differ from one another.
C1_Witness ==
    /\ pc[0] = "done"
    /\ Len(InputLines) = 3
    /\ attempts[0][Len(attempts[0])] = 2
    /\ Expected[1] # Expected[2]
    /\ Expected[2] # Expected[3]
    /\ SplitNL(out_file) = Expected

\* C2 as stated: after a successful pass the output file has as many
\* newline characters (count_lines) as the input file.
C2_SameNewlineCount ==
    \A p \in Procs :
        pc[p] = "done" => count_lines(out_file) = count_lines(sentences)

\* C2 amended: after a successful single-process pass over n input lines
\* count_lines of the output is n - 1 (0 for an empty input), and it equals
\* count_lines of the input exactly when the input is empty or does not end
\* with a newline character.
C2_NewlineCountAmended ==
    \A p \in Procs :
        pc[p] = "done" =>
            /\ count_lines(out_file) = Max(Len(InputLines) - 1, 0)
            /\ (count_lines(out_file) = count_lines(sentences))
                 <=> (sentences = <<>> \/ sentences[Len(sentences)] # NL)

\* C2 witness: a finished pass over three newline-terminated lines, whose
\* output has two newline characters.
C2_Witness ==
    /\ pc[0] = "done"
    /\ Len(InputLines) = 3
    /\ sentences[Len(sentences)] = NL
    /\ count_lines(sentences) = 3
    /\ count_lines(out_file) = 2

\* C3: every retry runs at half the batch size of the failed attempt
\* (rounded down); an attempt that has written nothing yet has its reader
\* at the first record or just past the first batch and finds the output
\* file empty on disk; and a run that succeeds after retries leaves exactly
\* the records of the input in the output file, nothing of a failed attempt.
C3_RetryRestartsAndTruncates ==
    \A p \in Procs :
        /\ \A i \in 1..(Len(attempts[p]) - 1) :
               attempts[p][i + 1] = attempts[p][i] \div 2
        /\ (output_file[p].open /\ pbar[p] = 0) =>
               /\ out_file = <<>>
               /\ output_file[p].buf = <<>>
               /\ current_line[p] <= batch_size[p]
               /\ (pc[p] = "fetch" => offset[p] = 0 /\ current_line[p] = 0)
        /\ (pc[p] = "done" /\ Len(attempts[p]) > 1) =>
               out_file = Join(Expected, <<NL>>)

\* C3 witness: a run that succeeded at its second or later attempt, after a
\* failed attempt had left some records in the output file.
C3_Witness ==
    /\ pc[0] = "done"
    /\ Len(attempts[0]) >= 2
    /\ \E i \in 1..Len(partial[0]) : partial[0][i] # <<>>
    /\ out_file = Join(Expected, <<NL>>)
    /\ out_file # <<>>

\* C4, in every state: inference is never called with a batch size below
\* 1, and a process in the fatal state got there from a failed attempt at
\* batch size 1 and has closed the output file.
C4_Inv ==
    \A p \in Procs :
        /\ \A i \in 1..Len(attempts[p]) : attempts[p][i] >= 1
        /\ pc[p] = "fatal" =>
               /\ attempts[p] # <<>>
               /\ attempts[p][Len(attempts[p])] = 1
               /\ batch_size[p] = 0
               /\ ~output_file[p].open

\* C4, in every step: memory exhaustion at batch size 1 leaves the process
\* with nothing to do but raise; once fatal it stays fatal, makes no
\* attempt and never prints "Translation done.".
C4_Step ==
    \A p \in Procs :
        /\ (pc[p] = "generate" /\ batch_size[p] = 1 /\ pc'[p] = "sizing") =>
               (batch_size'[p] = 0 /\ attempts'[p] = attempts[p])
        /\ (pc[p] = "sizing" /\ batch_size[p] = 0) =>
               (pc'[p] \in {"sizing", "fatal"} /\ attempts'[p] = attempts[p])
        /\ pc[p] = "fatal" => (pc'[p] = "fatal" /\ attempts'[p] = attempts[p])

\* C4: memory exhaustion on an attempt at batch size 1 is fatal: the
\* driver raises, inference is never called with a batch size below 1, no
\* further attempt is made and success is not reported.
C4_FatalAtBatchSizeOne == [](C4_Inv) /\ [][C4_Step]_vars

\* C4 witness: a process that ended fatal after at least two attempts.
C4_Witness ==
    /\ pc[0] = "fatal"
    /\ Len(attempts[0]) >= 2
    /\ attempts[0][Len(attempts[0])] = 1

\* C5: with several processes, no process other than the collecting one
\* (rank 0) ever has the output file open for writing.
C5_OnlyCollectorWrites ==
    \A p \in Procs : p # 0 => ~output_file[p].open

\* C6: a ParallelTextReader built on files whose line counts differ has
\* failed, its error names both counts, and it has yielded nothing; built
\* on files whose line counts agree it has not failed and holds that count.
C6_MismatchFailsAtConstruction ==
    reader.state # "none" =>
        IF count_lines(pred_file) # count_lines(gold_file)
        THEN /\ reader.state = "failed"
             /\ pairs = <<>>
             /\ ErrorMessage[6] = count_lines(pred_file)
             /\ ErrorMessage[8] = count_lines(gold_file)
        ELSE /\ reader.state # "failed"
             /\ reader.num_sentences = count_lines(gold_file)

\* C6 witness: a reader whose construction failed on files of 1 and 2
\* newline characters.
C6_Witness ==
    /\ reader.state = "failed"
    /\ reader.pref_filename_lines = 1
    /\ reader.gold_path_lines = 2

\* C7: after a successful pass every line was counted and generated for;
\* the lines that are empty once stripped are exactly those warned about,
\* and the output holds one record per input line, the k-th one the decoded
\* generation of the k-th line, empty or not.
C7_EmptyLineKept ==
    \A p \in Procs :
        (pc[p] = "done" /\ InputLines # <<>>) =>
            /\ pbar[p] = Len(InputLines)
            /\ current_line[p] = Len(InputLines)
            /\ warnings[p] = {k \in 1..Len(InputLines) : IsEmptyLine(k)}
            /\ Len(SplitNL(out_file)) = Len(InputLines)
            /\ \A k \in 1..Len(InputLines) :
                   SplitNL(out_file)[k] = TranslateLine(InputLines[k])

\* C7 witness: a finished pass over three lines, the second of which is
\* empty once stripped and the others not.
C7_Witness ==
    /\ pc[0] = "done"
    /\ Len(InputLines) = 3
    /\ ~IsEmptyLine(1) /\ IsEmptyLine(2) /\ ~IsEmptyLine(3)
    /\ warnings[0] = {2}
    /\ SplitNL(out_file)[2] = <<>>
    /\ SplitNL(out_file)[3] # <<>>

\* C8: on an empty input file no batch is fetched, the model is never
\* called, there is no retry and no fatal end, and the finished run leaves
\* an existing, empty output file after its one attempt.
C8_EmptyInput ==
    sentences = <<>> =>
        \A p \in Procs :
            /\ model_calls[p] = 0
            /\ pc[p] \in {"sizing", "fetch", "done"}
            /\ Len(attempts[p]) <= 1
            /\ partial[p] = <<>>
            /\ pbar[p] = 0
            /\ pc[p] = "done" =>
                   /\ out_exists
                   /\ out_file = <<>>
                   /\ attempts[p] = <<starting_batch_size>>

\* C8 witness: a finished run on the empty input file.
C8_Witness ==
    /\ sentences = <<>>
    /\ pc[0] = "done"
    /\ out_exists
    /\ out_file = <<>>

\* C9: count_lines gives the same count for a file that ends with a
\* newline character and for the same file without it.
C9_TrailingNewlineSameCount ==
    (/\ reader.state # "none"
     /\ gold_file # <<>>
     /\ gold_file[Len(gold_file)] # NL
     /\ pred_file = gold_file \o <<NL>>)
        => reader.pref_filename_lines = reader.gold_path_lines

\* C10: the output file at the end of a second successful run is the same,
\* character for character, as at the end of the first one.
C10_SecondRunSameOutput ==
    (\A p \in Procs : pc[p] = "done") =>
        \A i \in 1..Len(results) : results[i] = out_file

\* C10 witness: a second run that succeeded after a retry and left a
\* non-empty output file.
C10_Witness ==
    /\ run = 2
    /\ pc[0] = "done"
    /\ Len(attempts[0]) >= 2
    /\ results # <<>>
    /\ out_file # <<>>

\* C11: after a successful single-process pass over n >= 1 records, cut
\* into any number of batches, the output file is the n decoded records
\* joined by single newline characters: n - 1 separators in all, one
\* between consecutive records (those of two consecutive batches too), none
\* ahead of the first record and none after the last.
C11_JoinedBySingleNewlines ==
    \A p \in Procs :
        (pc[p] = "done" /\ Len(InputLines) >= 1) =>
            /\ out_file = Join(Expected, <<NL>>)
            /\ Len(out_file) = SumSeq([k \in 1..Len(Expected) |-> Len(Expected[k])])
                                 + (Len(InputLines) - 1)
            /\ CountNL(out_file) = Len(InputLines) - 1

\* C11 witness: a finished pass over three non-empty records written as
\* three batches of one record, two separators between them and no newline
\* at either end of the file.
C11_Witness ==
    /\ pc[0] = "done"
    /\ Len(InputLines) = 3
    /\ Len(batches[0]) = 3
    /\ \A k \in 1..3 : Expected[k] # <<>>
    /\ out_file = Join(Expected, <<NL>>)
    /\ out_file[1] # NL
    /\ out_file[Len(out_file)] # NL
    /\ CountNL(out_file) = 2

\* C12: the --max_length given on the command line is the truncation length
\* of the tokenizer and the max_length of generation: every batch handed to
\* the model is its lines tokenized with truncation at args.max_length, no
\* generated row is longer than args.max_length (128 only when the option is
\* not given).
C12_MaxLengthOptionUsed ==
    \A p \in Procs :
        /\ pc[p] = "generate" =>
             LET lines == batches[p][Len(batches[p])]
                 features == [i \in 1..Len(lines) |->
                                Tokenize(Strip(lines[i]), args_max_length)]
             IN \A i \in 1..Len(lines) :
                  SelectSeq(batch[p][i].input_ids, LAMBDA t : t # PAD)
                     = features[i].input_ids
        /\ pc[p] = "gather" =>
             \A i \in 1..Len(generated_tokens[p]) :
                Len(SelectSeq(generated_tokens[p][i], LAMBDA t : t # PAD))
                   <= args_max_length

\* C13: for an input of n records and a batch size B >= 1 the batches of
\* the DataLoader of get_dataloader are, at any point of a pass, a cut of the
\* first records of the stream in order: every batch but the latest holds
\* exactly B records, the latest holds 1 to B and fewer than B only when it
\* ends the stream, and the batch handed to the model is the collated
\* records of the latest; when the pass is over there are ceil(n / B)
\* batches that concatenate to the whole stream, none for an empty source.
C13_BatchesOfDataLoader ==
    \A p \in Procs :
        pc[p] \in {"fetch", "generate", "gather", "write", "done"} =>
            LET B == batch_size[p]
                bs == batches[p]
                stream == InputLines
                n == Len(stream)
                read == Flatten(bs)
            IN /\ B >= 1
               /\ Len(read) <= n
               /\ read = SubSeq(stream, 1, Len(read))
               /\ \A i \in 1..(Len(bs) - 1) : Len(bs[i]) = B
               /\ bs # <<>> =>
                    /\ Len(bs[Len(bs)]) \in 1..B
                    /\ Len(bs[Len(bs)]) < B => Len(read) = n
               /\ pc[p] = "generate" =>
                    batch[p] = data_collator(Preprocessed(bs[Len(bs)]), tpu)
               /\ pc[p] = "done" =>
                    /\ read = stream
                    /\ Len(bs) = (n + B - 1) \div B
                    /\ n = 0 => bs = <<>>

\* C13 witness: a finished pass over three records at batch size 2, in two
\* batches: a full one and a last one of a single record.
C13_Witness ==
    /\ pc[0] = "done"
    /\ Len(InputLines) = 3
    /\ batch_size[0] = 2
    /\ Len(batches[0]) = 2
    /\ Len(batches[0][1]) = 2
    /\ Len(batches[0][2]) = 1

\* C14: with several processes, the rows that pad_across_processes and
\* gather hand to every process for a batch are the generations of the
\* records of the logical batch, as many and in the same order, whatever the
\* size of the batch (a last batch shorter than the batch size or not a
\* multiple of the number of processes too): no record twice, no filler
\* record, no record lost. Stated for passes without any retry, all
\* processes at the same batch.
C14_GatherKeepsBatch ==
    (/\ \A p \in Procs : pc[p] = "write" /\ Len(attempts[p]) = 1
     /\ \A p, q \in Procs : batches[p] = batches[q])
        => \A p \in Procs :
              LET lines == batches[p][Len(batches[p])]
              IN batch_decode(generated_tokens[p])
                    = [i \in 1..Len(lines) |-> TranslateLine(lines[i])]

RECURSIVE Log2Floor(_)
\* floor(log2(n)) for n >= 1.
Log2Floor(n) == IF n <= 1 THEN 0 ELSE 1 + Log2Floor(n \div 2)

\* C15, in every state: the batch sizes attempted so far are the starting
\* batch size S, floor(S/2), floor(S/4), ...: each the half, rounded down,
\* of the one before and smaller than it, none below 1, and at most
\* floor(log2(S)) + 1 of them; the driver is at a position that is done,
\* fatal, or has a step to take (for a single process one of the actions at
\* each other position has a guard that holds).
C15_Inv ==
    \A p \in Procs :
        LET a == attempts[p] IN
        /\ a # <<>> => a[1] = starting_batch_size
        /\ \A i \in 1..(Len(a) - 1) : a[i + 1] = a[i] \div 2 /\ a[i + 1] < a[i]
        /\ \A i \in 1..Len(a) : a[i] >= 1
        /\ Len(a) <= Log2Floor(starting_batch_size) + 1
        /\ batch_size[p] \in {starting_batch_size} \cup
                             {a[i] : i \in 1..Len(a)} \cup {a[i] \div 2 : i \in 1..Len(a)}
        /\ pc[p] \in {"sizing", "fetch", "generate", "gather", "write", "done", "fatal"}

\* The rank of a position of the driver inside one batch of a pass.
C15_Stage(at) ==
    CASE at = "generate" -> 4 [] at = "gather" -> 3 [] at = "write" -> 2
      [] at = "fetch" -> 1 [] OTHER -> 0

\* What is left to do: runs, batch sizes to try, the start of the attempt,
\* characters to read, steps of the batch, characters to flush.
C15_Measure(p) ==
    <<2 - run, batch_size[p], IF pc[p] = "sizing" THEN 1 ELSE 0,
      Len(sentences) - offset[p], C15_Stage(pc[p]), Len(output_file[p].buf)>>

\* Whether a comes before b in the lexicographic order of tuples of
\* naturals of the same length.
C15_Less(a, b) ==
    \E k \in 1..Len(a) : a[k] < b[k] /\ \A j \in 1..(k - 1) : a[j] = b[j]

\* C15, in every step: the batch size changes only by halving, rounded
\* down, and every step of the driver brings it closer to its end: the
\* measure, a tuple of naturals, goes down in the lexicographic order.
C15_Step ==
    \A p \in Procs :
        /\ batch_size'[p] # batch_size[p] =>
              \/ batch_size'[p] = batch_size[p] \div 2 /\ batch_size[p] >= 1
              \/ run' # run
        /\ \A k \in 1..6 : C15_Measure(p)[k] >= 0
        /\ C15_Less(C15_Measure(p)', C15_Measure(p))

\* C15: for every starting batch size S >= 1 and every pattern of
\* out-of-memory errors the sizes attempted are S, floor(S/2), floor(S/4),
\* ..., strictly decreasing and never below 1, and the driver ends done or
\* fatal after at most floor(log2(S)) + 1 attempts.
C15_HalvingTerminates == [](C15_Inv) /\ [][C15_Step]_vars

\* C15 witness: a driver that ended fatal from starting batch size 3 after
\* the attempts 3 and 1, floor(log2(3)) + 1 of them.
C15_Witness ==
    /\ pc[0] = "fatal"
    /\ starting_batch_size = 3
    /\ attempts[0] = <<3, 1>>
    /\ Len(attempts[0]) = Log2Floor(starting_batch_size) + 1

\* C16, in every state: every attempt after the first follows an
\* out-of-memory error, and a driver that an error of another kind stopped
\* has closed the output file and still holds the batch size of the attempt
\* that failed.
C16_Inv ==
    \A p \in Procs :
        /\ Len(attempts[p]) <= Len(partial[p]) + 1
        /\ pc[p] = "error" =>
              /\ attempts[p] # <<>>
              /\ batch_size[p] = attempts[p][Len(attempts[p])]
              /\ ~output_file[p].open

\* C16, in every step: the batch size changes only with an out-of-memory
\* error of generate() (or a new run); an error of another kind leaves the
\* batch size as it is, and once stopped by it the driver stays stopped: no
\* attempt, no write, no "Translation done.".
C16_Step ==
    \A p \in Procs :
        /\ batch_size'[p] # batch_size[p] =>
              \/ /\ pc[p] = "generate"
                 /\ pc'[p] = "sizing"
                 /\ Len(partial'[p]) = Len(partial[p]) + 1
              \/ run' # run
        /\ (pc[p] \in {"fetch", "generate"} /\ pc'[p] = "error") =>
              /\ batch_size'[p] = batch_size[p]
              /\ attempts'[p] = attempts[p]
              /\ out_file' = Flushed(p)
        /\ pc[p] = "error" =>
              /\ pc'[p] = "error"
              /\ attempts'[p] = attempts[p]
              /\ batch_size'[p] = batch_size[p]
              /\ out_file' = out_file
              /\ run' = run

\* C16: only an out-of-memory error makes the driver retry: any other error
\* raised during a pass (input that cannot be read, output that cannot be
\* written, an error of the model) stops the run at once, with no further
\* attempt, no change of the batch size and no success reported.
C16_OnlyOutOfMemoryRetries == [](C16_Inv) /\ [][C16_Step]_vars

\* C16 witness: a run stopped by an error in its second attempt, after that
\* attempt had written output.
C16_Witness ==
    /\ pc[0] = "error"
    /\ Len(attempts[0]) = 2
    /\ batch_size[0] = attempts[0][2]
    /\ out_file # <<>>

\* C17: every record consumed from a reader raises its line index by one,
\* empty or not, so that during and after any iteration over the files (a
\* second iteration of the same reader object, begun once the first has
\* ended, too) the index is the number of records consumed in that
\* iteration, and the index of every empty-line
\* warning is the 1-based position in its file of a line that is empty once
\* stripped.
C17_LineIndexIsPosition ==
    /\ \A i \in 1..Len(pairs) :
          (\A j \in 1..Len(pairs) : j # i => exhausted[j] /\ j < i) =>
              reader.current_line = Len(pairs[i])
    /\ \A w \in reader_warnings :
          LET lines == IF w[1] = "Pred" THEN FileLines(pred_file)
                       ELSE FileLines(gold_file)
          IN /\ w[2] \in 1..Len(lines)
             /\ Strip(lines[w[2]]) = <<>>

\* C18: a ParallelTextReader that was built without error and iterated to
\* its end has yielded exactly len(reader) pairs, and the i-th pair is the
\* stripped i-th line of the prediction file with the one-element list of
\* the stripped i-th line of the reference file, whether or not the files
\* end with a newline character.
C18_YieldsLenPairs ==
    \A n \in 1..Len(pairs) :
        exhausted[n] =>
            /\ Len(pairs[n]) = reader.num_sentences
            /\ \A i \in 1..Len(pairs[n]) :
                  pairs[n][i] = <<Strip(FileLines(pred_file)[i]),
                                  <<Strip(FileLines(gold_file)[i])>>>>

\* The decoded records of the first k input lines joined by newlines: what
\* a pass has printed once the batches holding them are completed.
C19_Records(k) ==
    LET lines == ReadLines(sentences, 0, k)
    IN Join([i \in 1..Len(lines) |-> TranslateLine(lines[i])], <<NL>>)

\* The number of records of the batches completed so far in the attempt
\* of a process: those fetched but the one being generated, gathered or
\* written, or the one whose generation ran out of memory.
C19_Completed(p) ==
    LET bs == IF pc[p] \in {"generate", "gather", "write", "sizing"}
              THEN SubSeq(batches[p], 1, Len(batches[p]) - 1)
              ELSE batches[p]
    IN Len(Flatten(bs))

\* C19 as stated: at every moment of an attempt the output file holds
\* exactly the decoded records of the batches completed so far in this
\* attempt, in input order.
C19_FileHoldsCompletedBatches ==
    \A p \in Procs :
        output_file[p].open => out_file = C19_Records(C19_Completed(p))

\* C19 amended: at every moment of a single-process attempt the decoded
\* records of the first k input lines, k being the number of records of
\* the batches completed so far, are what the output file holds followed
\* by what its file object still buffers; the file itself holds a prefix of
\* that, character for character (and so of the records of all the lines,
\* which a successful completion produces); the buffer is written when the
\* attempt ends, so an attempt stopped by an exception leaves exactly the
\* records of its completed batches.
C19_PrefixAmended ==
    \A p \in Procs :
        /\ output_file[p].open =>
              LET printed == C19_Records(C19_Completed(p))
              IN /\ pbar[p] = C19_Completed(p)
                 /\ Flushed(p) = printed
                 /\ out_file = SubSeq(printed, 1, Len(out_file))
        /\ (pc[p] = "sizing" /\ partial[p] # <<>>) =>
              /\ pbar[p] = C19_Completed(p)
              /\ out_file = C19_Records(pbar[p])
              /\ out_file = partial[p][Len(partial[p])]

\* C19 witness: an attempt under way on three lines with two records
\* printed, part of them written to the file and the rest still buffered.
C19_Witness ==
    /\ output_file[0].open
    /\ Len(InputLines) = 3
    /\ pbar[0] = 2
    /\ out_file # <<>>
    /\ output_file[0].buf # <<>>
    /\ Flushed(0) = C19_Records(2)
    /\ out_file # C19_Records(2)

\* C20: with several processes, whenever the processes are together at the
\* collective pad and gather they are in the same attempt, at the same
\* batch size and at the same batch of the pass, and no process waits at
\* the collective for a process that has ended its run, done or fatal.
C20_BarrierSameAttempt ==
    /\ (\A p \in Procs : pc[p] = "gather") =>
          \A p, q \in Procs :
             /\ attempts[p] = attempts[q]
             /\ batch_size[p] = batch_size[q]
             /\ Len(batches[p]) = Len(batches[q])
    /\ \A p, q \in Procs :
          pc[p] = "gather" => pc[q] \notin {"done", "fatal"}

====
